---- MODULE Spec2Model ----
(***************************************************************************)
(* Model of server.ts: the zod User schema, the DTOs derived from it, the  *)
(* OpenAPI registry and document built at module load, the validation      *)
(* middleware validateRequest and the POST /users route.                   *)
(*                                                                         *)
(* JSON values are records [k, v]: k is the JavaScript type of the value   *)
(* and v its content.  A string is the sequence of its characters, so that *)
(* its length and the e-mail pattern are computed on it.  A number n is    *)
(* held as 2*n, so that the halves (-0.5, 1.5, ...) are values and         *)
(* Number.isInteger is a test of parity.  An object is a record of its     *)
(* keys; a key that is not in the object holds Undefined, which is what a  *)
(* property read of a missing key gives.                                   *)
(***************************************************************************)
EXTENDS Integers, Sequences, FiniteSets, TLC

VARIABLES pc, rolesDefault, registry, routes, document, reqs,
          dto, input, output, again

vars == <<pc, rolesDefault, registry, routes, document, reqs,
          dto, input, output, again>>

(***************************************************************************)
(* Bounds of the inputs.                                                   *)
(***************************************************************************)
MaxNameLen == 2
MaxAge == 1
MaxRolesLen == 2
MaxRequests == 2

(***************************************************************************)
(* JSON values.                                                            *)
(***************************************************************************)
Undefined == [k |-> "undefined", v |-> <<>>]
Null == [k |-> "null", v |-> <<>>]
Str(s) == [k |-> "string", v |-> s]
Num(twice) == [k |-> "number", v |-> twice]
Arr(xs) == [k |-> "array", v |-> xs]
Obj(fields) == [k |-> "object", v |-> fields]

User(name, email, age, roles, extra) ==
    Obj([name |-> name, email |-> email, age |-> age, roles |-> roles, extra |-> extra])

ADMIN == <<"a", "d", "m", "i", "n">>
USER == <<"u", "s", "e", "r">>
OWNER == <<"o", "w", "n", "e", "r">>

(***************************************************************************)
(* A ZodIssue: code, message and path.  A path segment is an object key    *)
(* (a string) or an array index (a number).                                *)
(***************************************************************************)
Key(name) == [k |-> "string", v |-> name]
Index(i) == [k |-> "number", v |-> i]
Issue(code, message, path) == [code |-> code, message |-> message, path |-> path]

ReceivedType(x) ==
    CASE x.k = "undefined" -> "undefined"
      [] x.k = "null" -> "null"
      [] x.k = "string" -> "string"
      [] x.k = "number" -> "number"
      [] x.k = "array" -> "array"
      [] OTHER -> "object"

(* A parse result: the issues added to the context and the parsed value. *)
Result(issues, value) == [issues |-> issues, value |-> value]

(***************************************************************************)
(* z.string().email(): the pattern zod tests an e-mail address against,    *)
(* without regard to case.  The address does not start with a dot and has  *)
(* no two dots in a row; the local part is any number of letters, digits,  *)
(* _ ' + - and dots, and ends in a letter, a digit, _ + or -; after the @  *)
(* come one or more labels, each a letter or digit followed by letters,    *)
(* digits and hyphens and closed by a dot, and then two or more letters.   *)
(* The addresses of the model are in lower case.                           *)
(***************************************************************************)
Letter == {"a", "b", "c", "d", "e", "f", "g", "h", "i", "j", "k", "l", "m",
           "n", "o", "p", "q", "r", "s", "t", "u", "v", "w", "x", "y", "z"}
Digit == {"0", "1", "2", "3", "4", "5", "6", "7", "8", "9"}
Alnum == Letter \cup Digit
LocalChar == Alnum \cup {"_", "'", "+", "-", "."}
LocalLast == Alnum \cup {"_", "+", "-"}

(* the labels of the domain, on the part of it up to its last dot *)
DomainLabels(d) ==
    /\ Len(d) >= 2
    /\ d[1] \in Alnum
    /\ d[Len(d)] = "."
    /\ \A i \in 1..Len(d) : d[i] \in Alnum \cup {"-", "."}
    /\ \A i \in 1..(Len(d) - 1) : d[i] = "." => d[i + 1] \in Alnum

MinTldLen == 2

IsEmail(s) ==
    /\ Len(s) > 0
    /\ s[1] # "."
    /\ \A i \in 1..(Len(s) - 1) : ~(s[i] = "." /\ s[i + 1] = ".")
    /\ \E at \in 2..Len(s) :
          /\ s[at] = "@"
          /\ \A i \in 1..(at - 2) : s[i] \in LocalChar
          /\ s[at - 1] \in LocalLast
          /\ \E dot \in (at + 2)..(Len(s) - MinTldLen) :
                /\ s[dot] = "."
                /\ \A i \in (dot + 1)..Len(s) : s[i] \in Letter
                /\ DomainLabels(SubSeq(s, at + 1, dot))

(***************************************************************************)
(* The fields of UserSchema.  Each takes the value at its key and the path *)
(* of that key and gives the issues it adds and the value it yields.       *)
(***************************************************************************)
MinNameLen == 2
MinAge == 0

(* name: z.string({required_error, invalid_type_error}).min(2, ...) *)
NameSchema(x, path) ==
    IF x.k = "undefined"
    THEN Result(<<Issue("invalid_type", "Name is required.", path)>>, x)
    ELSE IF x.k # "string"
    THEN Result(<<Issue("invalid_type", "Name must be a string.", path)>>, x)
    ELSE Result(IF Len(x.v) < MinNameLen
                THEN <<Issue("too_small", "Name must be at least 2 characters long.", path)>>
                ELSE <<>>, x)

(* email: z.string({required_error, invalid_type_error}).email(...) *)
EmailSchema(x, path) ==
    IF x.k = "undefined"
    THEN Result(<<Issue("invalid_type", "Email is required.", path)>>, x)
    ELSE IF x.k # "string"
    THEN Result(<<Issue("invalid_type", "Email must be a string.", path)>>, x)
    ELSE Result(IF ~IsEmail(x.v)
                THEN <<Issue("invalid_string",
                             "Invalid email format. Please provide a valid email.", path)>>
                ELSE <<>>, x)

(* .optional(), also what .partial() wraps every field in: undefined is
   accepted as it is, before the wrapped schema sees it; inner is the result
   of the wrapped schema on x *)
Optional(x, inner) ==
    IF x.k = "undefined" THEN Result(<<>>, Undefined) ELSE inner

(* AgeNumber with a parse that stops at the first check that fails *)
AgeNumberFirstCheckOnly(x, path) ==
    IF x.k # "number"
    THEN Result(<<Issue("invalid_type",
                        IF x.k = "undefined" THEN "Required" ELSE "Age must be a number.",
                        path)>>, x)
    ELSE IF x.v % 2 # 0
    THEN Result(<<Issue("invalid_type", "Age must be an integer.", path)>>, x)
    ELSE IF x.v < 2 * MinAge
    THEN Result(<<Issue("too_small", "Age must be a non-negative number.", path)>>, x)
    ELSE Result(<<>>, x)

(* AgeNumber with a minimum that is exclusive *)
AgeNumberExclusiveMin(x, path) ==
    IF x.k # "number"
    THEN Result(<<Issue("invalid_type",
                        IF x.k = "undefined" THEN "Required" ELSE "Age must be a number.",
                        path)>>, x)
    ELSE Result((IF x.v % 2 # 0
                 THEN <<Issue("invalid_type", "Age must be an integer.", path)>>
                 ELSE <<>>)
                \o
                (IF x.v <= 2 * MinAge
                 THEN <<Issue("too_small", "Age must be a non-negative number.", path)>>
                 ELSE <<>>), x)

(* z.number({invalid_type_error}).int(...).min(0, ...): a value of another
   type ends the parse; on a number every check runs, in the order declared *)
AgeNumber(x, path) ==
    IF x.k # "number"
    THEN Result(<<Issue("invalid_type",
                        IF x.k = "undefined" THEN "Required" ELSE "Age must be a number.",
                        path)>>, x)
    ELSE Result((IF x.v % 2 # 0
                 THEN <<Issue("invalid_type", "Age must be an integer.", path)>>
                 ELSE <<>>)
                \o
                (IF x.v < 2 * MinAge
                 THEN <<Issue("too_small", "Age must be a non-negative number.", path)>>
                 ELSE <<>>), x)

AgeSchema(x, path) == Optional(x, AgeNumber(x, path))

(* z.enum(['admin', 'user'], {errorMap}): the error map gives every issue of
   the enum the same message *)
RoleEnum(x, path) ==
    IF x.k # "string"
    THEN Result(<<Issue("invalid_type", "Role must be 'admin' or 'user'.", path)>>, x)
    ELSE IF x.v \notin {ADMIN, USER}
    THEN Result(<<Issue("invalid_enum_value", "Role must be 'admin' or 'user'.", path)>>, x)
    ELSE Result(<<>>, x)

(* ElementIssues with paths that count from 1 *)
RECURSIVE ElementIssuesOneBased(_, _, _)
ElementIssuesOneBased(xs, path, n) ==
    IF n = 0 THEN <<>>
    ELSE ElementIssuesOneBased(xs, path, n - 1)
         \o RoleEnum(xs[n], Append(path, Index(n))).issues

(* the issues of the elements 1..n of an array, in index order; paths count
   from 0 *)
RECURSIVE ElementIssues(_, _, _)
ElementIssues(xs, path, n) ==
    IF n = 0 THEN <<>>
    ELSE ElementIssues(xs, path, n - 1) \o RoleEnum(xs[n], Append(path, Index(n - 1))).issues

(* RolesArray with a loop over the elements that stops one short *)
RolesArrayOneShort(x, path) ==
    IF x.k # "array"
    THEN Result(<<Issue("invalid_type", "Expected array, received " \o ReceivedType(x), path)>>, x)
    ELSE Result(ElementIssues(x.v, path, Len(x.v)),
                Arr([i \in 1..(Len(x.v) - 1) |->
                        RoleEnum(x.v[i], Append(path, Index(i - 1))).value]))

(* z.array(RoleEnum): a new array of the parsed elements *)
RolesArray(x, path) ==
    IF x.k # "array"
    THEN Result(<<Issue("invalid_type", "Expected array, received " \o ReceivedType(x), path)>>, x)
    ELSE Result(ElementIssues(x.v, path, Len(x.v)),
                Arr([i \in 1..Len(x.v) |-> RoleEnum(x.v[i], Append(path, Index(i - 1))).value]))

(* RolesSchema with the default also taken for an empty array *)
RolesSchemaDefaultsEmpty(x, path) ==
    RolesArray(IF x.k = "undefined" \/ x = Arr(<<>>) THEN Arr(rolesDefault) ELSE x, path)

(* .default(['user']): undefined is replaced by the default value, which the
   array schema then parses *)
RolesSchema(x, path) ==
    RolesArray(IF x.k = "undefined" THEN Arr(rolesDefault) ELSE x, path)

(***************************************************************************)
(* z.object({name, email, age, roles}): the keys are parsed in the order   *)
(* they are declared, unknown keys are stripped.  n, e, a and r are the    *)
(* results of the field schemas on the values at their keys.               *)
(***************************************************************************)
ZodObject(x, n, e, a, r) ==
    IF x.k # "object"
    THEN Result(<<Issue("invalid_type",
                        IF x.k = "undefined" THEN "Required"
                        ELSE "Expected object, received " \o ReceivedType(x), <<>>)>>, x)
    ELSE Result(n.issues \o e.issues \o a.issues \o r.issues,
                User(n.value, e.value, a.value, r.value, Undefined))

UserSchema(x) ==
    ZodObject(x, NameSchema(x.v.name, <<Key("name")>>),
                 EmailSchema(x.v.email, <<Key("email")>>),
                 AgeSchema(x.v.age, <<Key("age")>>),
                 RolesSchema(x.v.roles, <<Key("roles")>>))

CreateUserDTO(x) == UserSchema(x)

(* UserSchema.partial(): every field schema wrapped in .optional() *)
PartialName(x, path) == Optional(x, NameSchema(x, path))
PartialEmail(x, path) == Optional(x, EmailSchema(x, path))
PartialAge(x, path) == Optional(x, AgeSchema(x, path))
(* PartialRoles with the default reached before the optional wrapper *)
PartialRolesDefaultFirst(x, path) == RolesSchema(x, path)

PartialRoles(x, path) == Optional(x, RolesSchema(x, path))

UpdateUserDTO(x) ==
    ZodObject(x, PartialName(x.v.name, <<Key("name")>>),
                 PartialEmail(x.v.email, <<Key("email")>>),
                 PartialAge(x.v.age, <<Key("age")>>),
                 PartialRoles(x.v.roles, <<Key("roles")>>))

Schema(name, x) == IF name = "UpdateUserDTO" THEN UpdateUserDTO(x) ELSE CreateUserDTO(x)

(* schema.parseAsync(data): resolves with the parsed value, or rejects with
   a ZodError that carries the issues *)
Resolved(value) == [kind |-> "resolved", value |-> value, issues |-> <<>>]
ZodError(issues) == [kind |-> "ZodError", value |-> Undefined, issues |-> issues]
OtherError == [kind |-> "Error", value |-> Undefined, issues |-> <<>>]
Pending == [kind |-> "none", value |-> Undefined, issues |-> <<>>]

ParseAsync(name, x) ==
    LET r == Schema(name, x)
    IN  IF r.issues = <<>> THEN Resolved(r.value) ELSE ZodError(r.issues)

(***************************************************************************)
(* Module load: the registry, the route table and the generated document.  *)
(***************************************************************************)

(* the schema the 400 response of POST /users is documented with: the type
   of error, of the fields of an entry of details, and of the elements of
   its path *)
ErrorResponseSchema ==
    [error |-> "string",
     details |-> [code |-> "string", message |-> "string", path |-> "string"]]

(* registry.register('User', UserSchema) *)
UserDefinition ==
    [type |-> "schema", refId |-> "User", schema |-> "UserSchema"]

(* registry.registerPath({method: 'post', path: '/users', ...}) *)
UsersPathDefinition ==
    [type |-> "route", method |-> "post", path |-> "/users",
     request |-> "CreateUserDTO", created |-> "UserSchema",
     badRequest |-> ErrorResponseSchema]

NoDocument ==
    [openapi |-> "", title |-> "", version |-> "", schemas |-> {}, paths |-> {}]

(* generator.generateDocument({openapi, info}): the schemas and the paths of
   the definitions given to the generator *)
GenerateDocument(definitions) ==
    [openapi |-> "3.0.0", title |-> "My API", version |-> "1.0.0",
     schemas |-> {definitions[i].refId :
                     i \in {j \in DOMAIN definitions : definitions[j].type = "schema"}},
     paths |-> {<<definitions[i].method, definitions[i].path>> :
                     i \in {j \in DOMAIN definitions : definitions[j].type = "route"}}]

(***************************************************************************)
(* A request in the pipeline of POST /users.                               *)
(*   raw        the body express.json() parsed, kept for the record        *)
(*   body       req.body                                                   *)
(*   parse      the promise of schema.parseAsync                           *)
(*   nextCalls  the calls of next, "ok" for next() and "error" for         *)
(*              next(error)                                                *)
(*   responses  what was sent with res.status(..).json(..)                 *)
(*   handled    how many times the route handler ran                       *)
(***************************************************************************)
Idle ==
    [pc |-> "idle", raw |-> Undefined, body |-> Undefined, parse |-> Pending,
     nextCalls |-> <<>>, responses |-> <<>>, handled |-> 0]

NewRequest(b) == [Idle EXCEPT !.pc = "received", !.raw = b, !.body = b]

Response(status, body) == [status |-> status, body |-> body]

(* (req, res) => { const user = req.body; res.status(201).json(user) } *)
RouteHandler(r) ==
    [r EXCEPT !.responses = Append(@, Response(201, r.body)), !.handled = @ + 1]

(* next(): express calls the next handler of the route, which is the route
   handler; next(error): express skips to its error handling *)
NextFunction(r, arg) ==
    IF arg = "error"
    THEN [r EXCEPT !.nextCalls = Append(@, "error")]
    ELSE RouteHandler([r EXCEPT !.nextCalls = Append(@, "ok")])

(* ValidateSettled with a catch block that goes on to next() after the 400 *)
ValidateSettledFallsThrough(r) ==
    IF r.parse.kind = "resolved"
    THEN NextFunction([r EXCEPT !.body = r.parse.value], "ok")
    ELSE IF r.parse.kind = "ZodError"
    THEN NextFunction([r EXCEPT !.responses =
                          Append(@, Response(400, [error |-> "Validation failed",
                                                   details |-> r.parse.issues]))], "ok")
    ELSE NextFunction(r, "error")

(* ValidateSettled with a catch block that takes every error for a ZodError *)
ValidateSettledCatchAll(r) ==
    IF r.parse.kind = "resolved"
    THEN NextFunction([r EXCEPT !.body = r.parse.value], "ok")
    ELSE [r EXCEPT !.responses =
             Append(@, Response(400, [error |-> "Validation failed",
                                      details |-> r.parse.issues]))]

(* validateRequest, from the point where the awaited promise has settled *)
ValidateSettled(r) ==
    IF r.parse.kind = "resolved"
    THEN NextFunction([r EXCEPT !.body = r.parse.value], "ok")
    ELSE IF r.parse.kind = "ZodError"
    THEN [r EXCEPT !.responses =
             Append(@, Response(400, [error |-> "Validation failed",
                                      details |-> r.parse.issues]))]
    ELSE NextFunction(r, "error")

(***************************************************************************)
(* The inputs: request bodies as express.json() hands them over.           *)
(***************************************************************************)
SeqsUpTo(S, n) == UNION {[1..m -> S] : m \in 0..n}

NameValues ==
    {Undefined, Num(10)} \cup {Str([i \in 1..n |-> "A"]) : n \in 0..MaxNameLen}

AL_EMAIL == <<"a", "l", "@", "e", "x", "a", "m", "p", "l", "e", ".", "c", "o", "m">>
BO_EMAIL == <<"b", "o", "@", "x", ".", "c", "o", "m">>
BAD_EMAIL == <<"b", "a", "d">>
EmailSamples ==
    {AL_EMAIL, BAD_EMAIL, <<>>, <<"a", "@", "b", ".", "c">>,
     <<".", "a", "@", "b", ".", "c", "o">>}

EmailValues == {Undefined, Num(10)} \cup {Str(e) : e \in EmailSamples}

AgeValues ==
    {Undefined, Null, Str(<<"7">>)} \cup {Num(h) : h \in (-2 * MaxAge)..(2 * MaxAge)}

RoleElements == {Str(ADMIN), Str(USER), Str(OWNER), Num(10)}

RolesValues ==
    {Undefined, Str(ADMIN)} \cup {Arr(xs) : xs \in SeqsUpTo(RoleElements, MaxRolesLen)}

ExtraValues == {Undefined, Str(<<"x">>)}

(* the bodies of the three end-to-end scenarios, and a user with every field *)
Scenario1 == User(Str(<<"A", "l">>), Str(AL_EMAIL), Undefined, Undefined, Undefined)
Scenario2 == User(Str(<<"A">>), Str(BAD_EMAIL), Undefined, Undefined, Undefined)
Scenario3 == User(Str(<<"B", "o">>), Str(BO_EMAIL), Undefined, Arr(<<Str(OWNER)>>), Undefined)
FullUser == User(Str(<<"A", "l">>), Str(AL_EMAIL), Num(2), Arr(<<Str(ADMIN)>>), Undefined)

ScenarioBodies == {Scenario1, Scenario2, Scenario3, FullUser}

(* every object of the field values above, a body that is no object, and
   the scenarios *)
Bodies ==
    {User(n, e, a, r, x) : n \in NameValues, e \in EmailValues, a \in AgeValues,
                           r \in RolesValues, x \in ExtraValues}
    \cup {Arr(<<>>)} \cup ScenarioBodies

RequestIds == 1..MaxRequests

(***************************************************************************)
(* The state when the module starts to load.                               *)
(***************************************************************************)
Init ==
    /\ pc = "start"
    /\ rolesDefault = <<>>
    /\ registry = <<>>
    /\ routes = {}
    /\ document = NoDocument
    /\ reqs = [id \in RequestIds |-> Idle]
    /\ dto = "none"
    /\ input = Undefined
    /\ output = Pending
    /\ again = Pending

dtoVars == <<dto, input, output, again>>

(* const UserSchema = z.object({...}), and the DTOs made of it *)
DefineSchemas ==
    /\ pc = "start"
    /\ pc' = "schemas"
    /\ rolesDefault' = <<Str(USER)>>
    /\ UNCHANGED <<registry, routes, document, reqs, dtoVars>>

(* registry.register('User', UserSchema) *)
RegisterUser ==
    /\ pc = "schemas"
    /\ pc' = "registered"
    /\ registry' = Append(registry, UserDefinition)
    /\ UNCHANGED <<rolesDefault, routes, document, reqs, dtoVars>>

(* registry.registerPath({...}) *)
RegisterPath ==
    /\ pc = "registered"
    /\ pc' = "paths"
    /\ registry' = Append(registry, UsersPathDefinition)
    /\ UNCHANGED <<rolesDefault, routes, document, reqs, dtoVars>>

(* app.post('/users', validateRequest(CreateUserDTO), handler) *)
MountRoute ==
    /\ pc = "paths"
    /\ pc' = "mounted"
    /\ routes' = routes \cup {<<"post", "/users">>}
    /\ UNCHANGED <<rolesDefault, registry, document, reqs, dtoVars>>

(* const document = generator.generateDocument({...}) *)
Generate ==
    /\ pc = "mounted"
    /\ pc' = "documented"
    /\ document' = GenerateDocument(registry)
    /\ UNCHANGED <<rolesDefault, registry, routes, reqs, dtoVars>>

(* app.use('/api-docs', ...); app.listen(5000, ...) *)
Listen ==
    /\ pc = "documented"
    /\ pc' = "listening"
    /\ UNCHANGED <<rolesDefault, registry, routes, document, reqs, dtoVars>>

Startup == DefineSchemas \/ RegisterUser \/ RegisterPath \/ MountRoute \/ Generate \/ Listen

(***************************************************************************)
(* POST /users.                                                            *)
(***************************************************************************)
startupVars == <<pc, rolesDefault, registry, routes, document>>

(* a request with a body of the set arrives and is routed to validateRequest *)
Receive(id, bodies) ==
    /\ pc = "listening"
    /\ <<"post", "/users">> \in routes
    /\ reqs[id].pc = "idle"
    /\ \E b \in bodies : reqs' = [reqs EXCEPT ![id] = NewRequest(b)]
    /\ UNCHANGED <<startupVars, dtoVars>>

(* validateRequest up to its await: schema.parseAsync(req.body) *)
ValidateStart(id) ==
    /\ reqs[id].pc = "received"
    /\ reqs' = [reqs EXCEPT ![id] =
                  [@ EXCEPT !.pc = "awaiting",
                            !.parse = ParseAsync("CreateUserDTO", reqs[id].body)]]
    /\ UNCHANGED <<startupVars, dtoVars>>

(* the same, when parseAsync fails with something that is no ZodError *)
ValidateStartThrows(id) ==
    /\ reqs[id].pc = "received"
    /\ reqs' = [reqs EXCEPT ![id] = [@ EXCEPT !.pc = "awaiting", !.parse = OtherError]]
    /\ UNCHANGED <<startupVars, dtoVars>>

(* ValidateResume with a handler that registers the schema again and keeps
   the roles it validated as the default of the schema *)
ValidateResumeWritesShared(id) ==
    /\ reqs[id].pc = "awaiting"
    /\ reqs' = [reqs EXCEPT ![id] = [ValidateSettled(reqs[id]) EXCEPT !.pc = "done"]]
    /\ registry' = IF reqs[id].parse.kind = "resolved"
                   THEN Append(registry, UserDefinition) ELSE registry
    /\ rolesDefault' = IF reqs[id].parse.kind = "resolved"
                       THEN reqs[id].parse.value.v.roles.v ELSE rolesDefault
    /\ UNCHANGED <<pc, routes, document, dtoVars>>

(* validateRequest after its await, with everything next() runs *)
ValidateResume(id) ==
    /\ reqs[id].pc = "awaiting"
    /\ reqs' = [reqs EXCEPT ![id] = [ValidateSettled(reqs[id]) EXCEPT !.pc = "done"]]
    /\ UNCHANGED <<startupVars, dtoVars>>

(* the exchange is over *)
Close(id) ==
    /\ reqs[id].pc = "done"
    /\ reqs' = [reqs EXCEPT ![id] = Idle]
    /\ UNCHANGED <<startupVars, dtoVars>>

(* one client, one request at a time, any body *)
Next ==
    \/ Startup
    \/ Receive(1, Bodies)
    \/ ValidateStart(1)
    \/ ValidateResume(1)
    \/ Close(1)

Spec == Init /\ [][Next]_vars

(* requests in flight together *)
NextConc ==
    \/ Startup
    \/ \E id \in RequestIds :
          \/ Receive(id, ScenarioBodies)
          \/ ValidateStart(id)
          \/ ValidateResume(id)
          \/ Close(id)

SpecConc == Init /\ [][NextConc]_vars

(* the same, with parseAsync free to fail with another error *)
NextFault ==
    \/ NextConc
    \/ \E id \in RequestIds : ValidateStartThrows(id)

SpecFault == Init /\ [][NextFault]_vars

(***************************************************************************)
(* The exported DTOs, applied by a caller to a value and again to the      *)
(* result.                                                                 *)
(***************************************************************************)
InitDTO ==
    /\ pc = "listening"
    /\ rolesDefault = <<Str(USER)>>
    /\ registry = <<UserDefinition, UsersPathDefinition>>
    /\ routes = {<<"post", "/users">>}
    /\ document = GenerateDocument(<<UserDefinition, UsersPathDefinition>>)
    /\ reqs = [id \in RequestIds |-> Idle]
    /\ dto \in {"CreateUserDTO", "UpdateUserDTO"}
    /\ input \in Bodies
    /\ output = Pending
    /\ again = Pending

ParseInput ==
    /\ output.kind = "none"
    /\ output' = ParseAsync(dto, input)
    /\ UNCHANGED <<startupVars, reqs, dto, input, again>>

ParseOutput ==
    /\ output.kind = "resolved"
    /\ again.kind = "none"
    /\ again' = ParseAsync(dto, output.value)
    /\ UNCHANGED <<startupVars, reqs, dto, input, output>>

NextDTO == ParseInput \/ ParseOutput

SpecDTO == InitDTO /\ [][NextDTO]_vars

(***************************************************************************)
(* The constraints of User as section 3 of the specification lists them,   *)
(* to state the claims with: for a value, the constraints it violates, in  *)
(* the order the fields and their constraints are declared, each with the  *)
(* path it is about and the message the schema declares for it.            *)
(***************************************************************************)
Violation(path, message) == [path |-> path, message |-> message]

NameViolations(x) ==
    IF x.k = "undefined" THEN <<Violation(<<Key("name")>>, "Name is required.")>>
    ELSE IF x.k # "string" THEN <<Violation(<<Key("name")>>, "Name must be a string.")>>
    ELSE IF Len(x.v) < 2
    THEN <<Violation(<<Key("name")>>, "Name must be at least 2 characters long.")>>
    ELSE <<>>

EmailViolations(x) ==
    IF x.k = "undefined" THEN <<Violation(<<Key("email")>>, "Email is required.")>>
    ELSE IF x.k # "string" THEN <<Violation(<<Key("email")>>, "Email must be a string.")>>
    ELSE IF ~IsEmail(x.v)
    THEN <<Violation(<<Key("email")>>, "Invalid email format. Please provide a valid email.")>>
    ELSE <<>>

AgeViolations(x) ==
    IF x.k = "undefined" THEN <<>>
    ELSE IF x.k # "number" THEN <<Violation(<<Key("age")>>, "Age must be a number.")>>
    ELSE SelectSeq(<<Violation(<<Key("age")>>, "Age must be an integer."),
                     Violation(<<Key("age")>>, "Age must be a non-negative number.")>>,
                   LAMBDA c : \/ c.message = "Age must be an integer." /\ x.v % 2 # 0
                              \/ c.message = "Age must be a non-negative number." /\ x.v < 0)

RECURSIVE RoleViolations(_, _)
RoleViolations(xs, n) ==
    IF n = 0 THEN <<>>
    ELSE RoleViolations(xs, n - 1) \o
         (IF xs[n] \in {Str(ADMIN), Str(USER)} THEN <<>>
          ELSE <<Violation(<<Key("roles"), Index(n - 1)>>, "Role must be 'admin' or 'user'.")>>)

RolesViolations(x) ==
    IF x.k = "undefined" THEN <<>>
    ELSE IF x.k # "array"
    THEN <<Violation(<<Key("roles")>>, "Expected array, received " \o ReceivedType(x))>>
    ELSE RoleViolations(x.v, Len(x.v))

Violations(p) ==
    IF p.k # "object"
    THEN <<Violation(<<>>, "Expected object, received " \o ReceivedType(p))>>
    ELSE NameViolations(p.v.name) \o EmailViolations(p.v.email)
         \o AgeViolations(p.v.age) \o RolesViolations(p.v.roles)

(* the violations of the fields that are present *)
PresentViolations(p) ==
    IF p.k # "object"
    THEN <<Violation(<<>>, "Expected object, received " \o ReceivedType(p))>>
    ELSE (IF p.v.name.k = "undefined" THEN <<>> ELSE NameViolations(p.v.name))
         \o (IF p.v.email.k = "undefined" THEN <<>> ELSE EmailViolations(p.v.email))
         \o AgeViolations(p.v.age) \o RolesViolations(p.v.roles)

Done(r) == r.pc = "done"

ValidationFailed(r) ==
    /\ Len(r.responses) = 1
    /\ r.responses[1].status = 400
    /\ r.responses[1].body.error = "Validation failed"

Created(r) ==
    /\ Len(r.responses) = 1
    /\ r.responses[1].status = 201

Details(r) == r.responses[1].body.details

Sent(r) == r.responses[1].body

(***************************************************************************)
(* The claims about POST /users.                                           *)
(***************************************************************************)

(* C1: a body that satisfies every constraint of User is accepted: next()
   is called once, the route handler runs once, and the one response is 201
   with every declared field as supplied, roles [user] exactly when roles
   was absent, and an absent age still absent *)
C1_ValidBodyIsCreated ==
    \A id \in RequestIds :
        LET r == reqs[id] IN
        (Done(r) /\ Violations(r.raw) = <<>>) =>
            /\ r.nextCalls = <<"ok">>
            /\ r.handled = 1
            /\ Created(r)
            /\ Sent(r).k = "object"
            /\ Sent(r).v.name = r.raw.v.name
            /\ Sent(r).v.email = r.raw.v.email
            /\ Sent(r).v.age = r.raw.v.age
            /\ Sent(r).v.roles = IF r.raw.v.roles.k = "undefined"
                                 THEN Arr(<<Str(USER)>>) ELSE r.raw.v.roles

C1_Witness ==
    \E id \in RequestIds :
        /\ Done(reqs[id])
        /\ reqs[id].raw = Scenario1
        /\ reqs[id].responses =
              <<Response(201, User(Str(<<"A", "l">>), Str(AL_EMAIL), Undefined,
                                   Arr(<<Str(USER)>>), Undefined))>>

(* C2: a body that violates a constraint ends in the one response 400
   {error: "Validation failed", details}, with next never called and the
   route handler never run; no request gets both a 400 and a 201, and the
   body the route handler sees violates nothing *)
C2_InvalidBodyIsRejected ==
    \A id \in RequestIds :
        LET r == reqs[id] IN
        /\ (Done(r) /\ Violations(r.raw) # <<>>) =>
              /\ ValidationFailed(r)
              /\ Len(Details(r)) >= 1
              /\ r.nextCalls = <<>>
              /\ r.handled = 0
        /\ ~(\E i, j \in DOMAIN r.responses :
                r.responses[i].status = 400 /\ r.responses[j].status = 201)
        /\ r.handled > 0 => Violations(r.body) = <<>>

C2_Witness ==
    \E id \in RequestIds :
        /\ Done(reqs[id])
        /\ reqs[id].raw = Scenario2
        /\ ValidationFailed(reqs[id])
        /\ reqs[id].nextCalls = <<>>
        /\ reqs[id].handled = 0

(* C3: a body that violates exactly one constraint gets 400 with exactly one
   entry in details, whose path is that of the violated constraint *)
C3_OneViolationOneEntry ==
    \A id \in RequestIds :
        LET r == reqs[id] IN
        (Done(r) /\ Len(Violations(r.raw)) = 1) =>
            /\ ValidationFailed(r)
            /\ Len(Details(r)) = 1
            /\ Details(r)[1].path = Violations(r.raw)[1].path

C3_Witness ==
    \E id \in RequestIds :
        /\ Done(reqs[id])
        /\ reqs[id].raw = Scenario3
        /\ ValidationFailed(reqs[id])
        /\ Len(Details(reqs[id])) = 1
        /\ Details(reqs[id])[1].path = <<Key("roles"), Index(0)>>

(* C4: a body that violates several constraints gets 400 with one entry of
   details for each, in the order the fields are declared and, within a
   field, the order its constraints are declared (for roles, by index);
   {name: "A", email: "bad"} gets name-too-short and then invalid-email *)
C4_EntriesInDeclarationOrder ==
    \A id \in RequestIds :
        LET r == reqs[id] IN
        /\ (Done(r) /\ Len(Violations(r.raw)) >= 2) =>
              /\ ValidationFailed(r)
              /\ Len(Details(r)) = Len(Violations(r.raw))
              /\ \A i \in 1..Len(Details(r)) :
                    /\ Details(r)[i].path = Violations(r.raw)[i].path
                    /\ Details(r)[i].message = Violations(r.raw)[i].message
        /\ (Done(r) /\ r.raw = Scenario2) =>
              /\ Len(Details(r)) = 2
              /\ Details(r)[1].code = "too_small"
              /\ Details(r)[1].path = <<Key("name")>>
              /\ Details(r)[2].code = "invalid_string"
              /\ Details(r)[2].path = <<Key("email")>>

(* one violation of every field, two of age and two of roles *)
C4_Witness ==
    \E id \in RequestIds :
        /\ Done(reqs[id])
        /\ reqs[id].raw = User(Str(<<"A">>), Str(BAD_EMAIL), Num(-1),
                               Arr(<<Str(OWNER), Num(10)>>), Undefined)
        /\ ValidationFailed(reqs[id])
        /\ [i \in 1..Len(Details(reqs[id])) |-> Details(reqs[id])[i].path] =
              <<<<Key("name")>>, <<Key("email")>>, <<Key("age")>>, <<Key("age")>>,
                <<Key("roles"), Index(0)>>, <<Key("roles"), Index(1)>>>>

(* C5: on a body whose name and email are valid: age 0 is accepted and age
   -1 is rejected with 400; absent roles come out as [user]; roles [] is
   accepted and comes out as [] *)
C5_Boundaries ==
    \A id \in RequestIds :
        LET r == reqs[id]
            f == r.raw.v
        IN  (/\ Done(r)
             /\ r.raw.k = "object"
             /\ NameViolations(f.name) = <<>>
             /\ EmailViolations(f.email) = <<>>) =>
               /\ (f.age = Num(0) /\ RolesViolations(f.roles) = <<>>) =>
                     Created(r) /\ Sent(r).v.age = Num(0)
               /\ f.age = Num(-2) => ValidationFailed(r)
               /\ (f.roles.k = "undefined" /\ AgeViolations(f.age) = <<>>) =>
                     Created(r) /\ Sent(r).v.roles = Arr(<<Str(USER)>>)
               /\ (f.roles = Arr(<<>>) /\ AgeViolations(f.age) = <<>>) =>
                     Created(r) /\ Sent(r).v.roles = Arr(<<>>)

C5_Witness ==
    \E id \in RequestIds :
        /\ Done(reqs[id])
        /\ reqs[id].raw.k = "object"
        /\ reqs[id].raw.v.age = Num(0)
        /\ reqs[id].raw.v.roles = Arr(<<>>)
        /\ Created(reqs[id])
        /\ Sent(reqs[id]).v.roles = Arr(<<>>)

(* C10: every 400 body the middleware sends has the shape the registered
   path documents for the 400 response of the operation: every element of
   the path of an entry of details has the documented type *)
C10_BadRequestBodyAsDocumented ==
    \A id \in RequestIds :
        \A i \in DOMAIN reqs[id].responses :
            reqs[id].responses[i].status = 400 =>
                LET documented == registry[2].badRequest
                    body == reqs[id].responses[i].body
                IN  /\ documented.error = "string"
                    /\ \A d \in DOMAIN body.details :
                          \A s \in DOMAIN body.details[d].path :
                              body.details[d].path[s].k = documented.details.path

(***************************************************************************)
(* The claims about the DTOs as functions.                                 *)
(***************************************************************************)

(* C6: what CreateUserDTO accepts and normalizes, it accepts again, and the
   second result equals the first *)
C6_ValidationIsIdempotent ==
    (dto = "CreateUserDTO" /\ output.kind = "resolved" /\ again.kind # "none") =>
        /\ again.kind = "resolved"
        /\ again.value = output.value

C6_Witness ==
    /\ dto = "CreateUserDTO"
    /\ input = Scenario1
    /\ output.kind = "resolved"
    /\ again.kind = "resolved"
    /\ again.value.v.roles = Arr(<<Str(USER)>>)

(* C9: UpdateUserDTO accepts an object exactly when every field that is
   present satisfies its constraint of User; a field that is absent from the
   input is absent from the result, roles included, and a field that is
   present keeps its value *)
C9_PartialMakesEveryFieldOptional ==
    (dto = "UpdateUserDTO" /\ output.kind # "none" /\ input.k = "object") =>
        /\ output.kind = "resolved" <=> PresentViolations(input) = <<>>
        /\ output.kind = "resolved" =>
              /\ output.value.k = "object"
              /\ output.value.v.name = input.v.name
              /\ output.value.v.email = input.v.email
              /\ output.value.v.age = input.v.age
              /\ output.value.v.roles = input.v.roles

C9_Witness ==
    /\ dto = "UpdateUserDTO"
    /\ input = User(Undefined, Undefined, Undefined, Undefined, Undefined)
    /\ output.kind = "resolved"
    /\ output.value.v.roles = Undefined

(***************************************************************************)
(* The claims about the middleware and the shared state.                   *)
(***************************************************************************)

(* C7: a failure of the parse that is no ZodError goes to next(error), once:
   the middleware sends no response for it and the route handler does not
   run; and a 400 is sent for a ZodError only *)
C7_OtherErrorsAreForwarded ==
    \A id \in RequestIds :
        LET r == reqs[id] IN
        /\ (Done(r) /\ r.parse.kind = "Error") =>
              /\ r.nextCalls = <<"error">>
              /\ r.responses = <<>>
              /\ r.handled = 0
        /\ \A i \in DOMAIN r.responses :
              r.responses[i].status = 400 => r.parse.kind = "ZodError"

C7_Witness ==
    \E id \in RequestIds :
        /\ Done(reqs[id])
        /\ reqs[id].parse.kind = "Error"
        /\ reqs[id].nextCalls = <<"error">>
        /\ reqs[id].responses = <<>>

(* what a finished request shows of its handling *)
Outcome(r) == <<r.nextCalls, r.responses, r.handled>>

StartupFinished ==
    /\ registry = <<UserDefinition, UsersPathDefinition>>
    /\ document = GenerateDocument(registry)
    /\ rolesDefault = <<Str(USER)>>

(* C8: once the server listens, no step of any request changes the
   registry, the document, the route table or the default of roles, which
   are as startup left them, and two finished requests with the same body
   have the same outcome *)
C8_RequestsWriteNoSharedState ==
    [][pc = "listening" =>
        /\ registry' = registry
        /\ document' = document
        /\ routes' = routes
        /\ rolesDefault' = rolesDefault
        /\ StartupFinished'
        /\ \A a, b \in RequestIds :
              (reqs'[a].pc = "done" /\ reqs'[b].pc = "done" /\ reqs'[a].raw = reqs'[b].raw)
                  => Outcome(reqs'[a]) = Outcome(reqs'[b])]_vars

(* two requests in flight together, one accepted and one rejected *)
C8_Witness ==
    /\ pc = "listening"
    /\ StartupFinished
    /\ \E a, b \in RequestIds :
          /\ reqs[a].pc = "done" /\ Created(reqs[a])
          /\ reqs[b].pc = "awaiting" /\ reqs[b].parse.kind = "ZodError"

====
